---- MODULE Spec2Model ----
(***************************************************************************)
(* Model of the MEMO_DUNIYA virtualized grid viewer: the item store of     *)
(* src/data.js and the pan / zoom / render / boundary-load engine of       *)
(* src/app.js.  Every handler of the page is one action; the browser's     *)
(* frame-callback list (requestAnimationFrame) is the variable rafQueue.   *)
(*                                                                         *)
(* Numbers.  JavaScript numbers are modelled as exact rationals [n, d]     *)
(* (pan and zoom become fractions after a wheel zoom); item coordinates    *)
(* and ids are integers.  The grid is scaled down: the source's            *)
(* GRID_COLUMNS = 50, 2000 items per batch, BUFFER_SIZE = 3,               *)
(* LOAD_THRESHOLD = 2000 and MAX_DOM_NODES = 500 are replaced by the       *)
(* small values below, which keep the same geometry in miniature (a        *)
(* centred camera is near no boundary, a drag of one cell reaches one).    *)
(***************************************************************************)
EXTENDS Integers, Sequences, FiniteSets, TLC

VARIABLES
    state,                 \* app.js: the camera record `state`
    renderedItems,         \* app.js: Map<itemId, element>
    canvasChildren,        \* app.js: the grid-item children of #virtual-canvas, by item id
    renderAnimationFrame,  \* app.js: "null" or "handle"
    isLoadingMore,         \* app.js: in-flight guard of the boundary loader
    ITEM_DATA,             \* data.js: the item store
    globalItemIdCounter,   \* data.js: last id handed out
    usingRealData,         \* data.js
    addMoreItemsDefined,   \* typeof window.addMoreItemsToMEGHTOSH === 'function'
    loadPending,           \* data.js: the loadItemData() promise has not settled
    rafQueue,              \* browser: frame callbacks requested and not yet run
    nAppends,              \* number of effective appends so far (bounds the store)
    nWheel,                \* number of wheel events so far (bounds the zoom levels)
    nEvents,               \* number of input events so far (bounds the run)
    lastSync,              \* history: the camera the last syncDOM pass used
    log                    \* history: what the last turn did, in order

vars == <<state, renderedItems, canvasChildren, renderAnimationFrame, isLoadingMore, ITEM_DATA,
          globalItemIdCounter, usingRealData, addMoreItemsDefined, loadPending,
          rafQueue, nAppends, nWheel, nEvents, lastSync, log>>

----------------------------------------------------------------------------
(* Program constants.  ITEM_SIZE has the source's value; the others are    *)
(* the source's constants scaled down (source values in the comments).     *)

ITEM_SIZE == 200
\* app.js:6, BUFFER_SIZE as shipped
SourceBufferSize == 3
\* data.js:4 GRID_COLUMNS = 50
GRID_COLUMNS == 4
\* data.js:151 generateItemData(2000, ...): 40 rows of 50; here 4 rows of 4
INITIAL_ITEMS == 16
\* app.js:647,656,665,674 addMoreItemsToMEGHTOSH(2000, dir)
LOAD_COUNT == 16
\* app.js:6 BUFFER_SIZE = 3
BUFFER_SIZE == 1
\* app.js:34 LOAD_THRESHOLD = 2000
LOAD_THRESHOLD == 100
\* app.js:7 MAX_DOM_NODES = 500
MAX_DOM_NODES == 12

(* Bounds of the model. *)
MaxAppends == 2
MaxWheel == 1
MaxEvents == 4
MaxStoreAppends == 3
MaxRealItems == 5
MaxPan == 500
MaxZoomSteps == 2

\* e.clientX, e.clientY of a mouse-down
DownPoints == {<<200, 200>>}
\* e.clientX, e.clientY of a mouse-move (one cell left, right, up, down of it)
MovePoints == {<<0, 200>>, <<400, 200>>, <<200, 0>>, <<200, 400>>}
\* e.clientX, e.clientY of a wheel event
WheelPoints == {<<0, 0>>, <<200, 200>>}
\* e.button
Buttons == {0, 2}
\* e.deltaY of a wheel event (5000 changes zoom by 0.5)
WheelDeltas == {-5000, 5000}
\* viewport.clientWidth, viewport.clientHeight
ViewSizes == {<<200, 200>>, <<400, 200>>}
\* data.items.length of photos-data.json when it holds real URLs
RealDataSizes == {MaxRealItems}
Directions == {"right", "bottom", "left", "top"}
\* the count argument of a direct call of window.addMoreItemsToMEGHTOSH
AppendCounts == {3, LOAD_COUNT}

----------------------------------------------------------------------------
(* Evaluation helpers.  An operator's argument and a LET definition are    *)
(* re-evaluated at every use; Bind(x, F) is F(x) with x evaluated once.    *)

Bind(x, F(_)) == CHOOSE r \in {F(v) : v \in {x}} : TRUE
Bind2(x, y, F(_, _)) == CHOOSE r \in {F(v, w) : v \in {x}, w \in {y}} : TRUE
Bind3(x, y, z, F(_, _, _)) ==
    CHOOSE r \in {F(u, v, w) : u \in {x}, v \in {y}, w \in {z}} : TRUE

\* the function f on 1..n as a sequence value
AsSeq(f) == f \o << >>

----------------------------------------------------------------------------
(* Exact rational arithmetic for JavaScript numbers. *)

Abs(x) == IF x < 0 THEN -x ELSE x

RECURSIVE GCD(_, _)
GCD(a, b) == IF b = 0 THEN a ELSE Bind2(b, a % b, GCD)

Rat(n0, d0) ==
    Bind2(n0, d0, LAMBDA n, d :
        Bind(GCD(Abs(n), Abs(d)), LAMBDA g :
            LET s == IF d < 0 THEN -1 ELSE 1
            IN  [n |-> (s * n) \div g, d |-> (s * d) \div g]))

RInt(i) == [n |-> i, d |-> 1]
RAdd(a0, b0) ==
    Bind2(a0, b0, LAMBDA a, b : Rat(a.n * b.d + b.n * a.d, a.d * b.d))
RSub(a0, b0) ==
    Bind2(a0, b0, LAMBDA a, b : Rat(a.n * b.d - b.n * a.d, a.d * b.d))
RMul(a0, b0) == Bind2(a0, b0, LAMBDA a, b : Rat(a.n * b.n, a.d * b.d))
RDiv(a0, b0) == Bind2(a0, b0, LAMBDA a, b : Rat(a.n * b.d, a.d * b.n))
RLt(a0, b0) == \E a \in {a0}, b \in {b0} : a.n * b.d < b.n * a.d
RLe(a0, b0) == \E a \in {a0}, b \in {b0} : a.n * b.d <= b.n * a.d
RMin(a0, b0) == Bind2(a0, b0, LAMBDA a, b : IF RLt(b, a) THEN b ELSE a)
RMax(a0, b0) == Bind2(a0, b0, LAMBDA a, b : IF RLt(a, b) THEN b ELSE a)

\* Math.ceil(a / b) and Math.floor(a / b) for integers a and b > 0
CeilDiv(a, b) == -((-a) \div b)
FloorDiv(a, b) == a \div b

\* JavaScript's a % b for integers (the sign follows the dividend)
jsMod(a0, b) == Bind(a0, LAMBDA a : IF a >= 0 THEN a % b ELSE -((-a) % b))

SeqToSet(s0) == Bind(s0, LAMBDA s : {s[i] : i \in 1..Len(s)})
MinOf(S0) == Bind(S0, LAMBDA S : CHOOSE x \in S : \A y \in S : x <= y)
MaxOf(S0) == Bind(S0, LAMBDA S : CHOOSE x \in S : \A y \in S : x >= y)

----------------------------------------------------------------------------
(* data.js: the item store *)

\* generateItemData's draw Math.random() > 0.9 for the item with this id: the
\* draws of the run are an input; here every tenth item is a video
RandomIsVideo(id) == id % 10 = 0

\* generateItemData(totalItems, topic, startId, startIndex) with startId given:
\* the new items, in order.  src is the URL's host ("picsum" for an image,
\* "sample-videos" for the placeholder video); topic is not modelled.
generateItemData(totalItems0, startId0, startIndex0) ==
    Bind3(totalItems0, startId0, startIndex0,
          LAMBDA totalItems, startId, startIndex :
        [i \in 1..totalItems |->
            LET globalIndex == startIndex + (i - 1)
                row == FloorDiv(globalIndex, GRID_COLUMNS)
                column == jsMod(globalIndex, GRID_COLUMNS)
            IN  [id |-> startId + (i - 1),
                 type |-> IF RandomIsVideo(startId + (i - 1)) THEN "video" ELSE "photo",
                 src |-> IF RandomIsVideo(startId + (i - 1)) THEN "sample-videos"
                         ELSE "picsum",
                 x |-> column * ITEM_SIZE,
                 y |-> row * ITEM_SIZE,
                 column |-> column,
                 row |-> row]])

\* a faulty variant: the counter stops one short of the last id handed out
counterAfterGenerate_short(totalItems, startId) == startId + totalItems - 2

\* generateItemData's update of the global counter: baseId + totalItems - 1
counterAfterGenerate(totalItems, startId) == startId + totalItems - 1

\* a faulty variant: the new columns are placed one column too far right
leftItems_shifted(items, count, counter) ==
    Bind3(MinOf({items[k].x : k \in 1..Len(items)}),
          MinOf({items[k].y : k \in 1..Len(items)}),
          generateItemData(count, counter + 1, -count),
          LAMBDA minX, minY, gen :
        LET currentRows == CeilDiv(Len(items), GRID_COLUMNS)
            newCols == CeilDiv(count, currentRows)
        IN  [i \in 1..count |->
                LET idx == i - 1
                    col == idx % newCols
                    row == FloorDiv(idx, newCols)
                    nx == minX - ((newCols - col - 1) * ITEM_SIZE)
                    ny == (FloorDiv(minY, ITEM_SIZE) + row) * ITEM_SIZE
                IN  [gen[i] EXCEPT !.x = nx, !.y = ny,
                                   !.column = FloorDiv(nx, ITEM_SIZE),
                                   !.row = FloorDiv(ny, ITEM_SIZE)]])

\* addMoreItems, direction 'left': the repositioned new items
leftItems(items, count, counter) ==
    Bind3(MinOf({items[k].x : k \in 1..Len(items)}),
          MinOf({items[k].y : k \in 1..Len(items)}),
          generateItemData(count, counter + 1, -count),
          LAMBDA minX, minY, gen :
        LET currentRows == CeilDiv(Len(items), GRID_COLUMNS)
            newCols == CeilDiv(count, currentRows)
        IN  [i \in 1..count |->
                LET idx == i - 1
                    col == idx % newCols
                    row == FloorDiv(idx, newCols)
                    nx == minX - ((newCols - col) * ITEM_SIZE)
                    ny == (FloorDiv(minY, ITEM_SIZE) + row) * ITEM_SIZE
                IN  [gen[i] EXCEPT !.x = nx, !.y = ny,
                                   !.column = FloorDiv(nx, ITEM_SIZE),
                                   !.row = FloorDiv(ny, ITEM_SIZE)]])

\* a faulty variant: the column of a repositioned item is not recomputed
topItems_staleColumn(items, count, counter) ==
    Bind2(MinOf({items[k].y : k \in 1..Len(items)}),
          generateItemData(count, counter + 1, -count),
          LAMBDA minY, gen :
        LET newRows == CeilDiv(count, GRID_COLUMNS)
        IN  [i \in 1..count |->
                LET idx == i - 1
                    col == idx % GRID_COLUMNS
                    row == FloorDiv(idx, GRID_COLUMNS)
                    ny == minY - ((newRows - row) * ITEM_SIZE)
                IN  [gen[i] EXCEPT !.x = col * ITEM_SIZE, !.y = ny,
                                   !.row = FloorDiv(ny, ITEM_SIZE)]])

\* addMoreItems, direction 'top': the repositioned new items
topItems(items, count, counter) ==
    Bind2(MinOf({items[k].y : k \in 1..Len(items)}),
          generateItemData(count, counter + 1, -count),
          LAMBDA minY, gen :
        LET newRows == CeilDiv(count, GRID_COLUMNS)
        IN  [i \in 1..count |->
                LET idx == i - 1
                    col == idx % GRID_COLUMNS
                    row == FloorDiv(idx, GRID_COLUMNS)
                    ny == minY - ((newRows - row) * ITEM_SIZE)
                IN  [gen[i] EXCEPT !.x = col * ITEM_SIZE, !.y = ny,
                                   !.column = col,
                                   !.row = FloorDiv(ny, ITEM_SIZE)]])

\* a faulty variant: a right or bottom append numbers its cells from index 0
newItemsFor_fromZero(items, count, direction, counter) ==
    IF direction \in {"right", "bottom"}
    THEN generateItemData(count, counter + 1, 0)
    ELSE IF direction = "left" THEN leftItems(items, count, counter)
    ELSE IF direction = "top" THEN topItems(items, count, counter)
    ELSE << >>

\* addMoreItems: the array newItems it builds (and returns)
newItemsFor(items, count, direction, counter) ==
    IF direction \in {"right", "bottom"}
    THEN generateItemData(count, counter + 1, Len(items))
    ELSE IF direction = "left" THEN leftItems(items, count, counter)
    ELSE IF direction = "top" THEN topItems(items, count, counter)
    ELSE << >>

\* a faulty variant: a left or top append renumbers the grid, moving the
\* existing items one column right
storeAfterAdd_shifts(items, newItems, direction) ==
    IF direction \in {"right", "bottom"} THEN items \o newItems
    ELSE IF direction \in {"left", "top"}
    THEN newItems \o [k \in 1..Len(items) |->
                        [items[k] EXCEPT !.column = @ + 1, !.x = @ + ITEM_SIZE]]
    ELSE items

\* addMoreItems: the new value of ITEM_DATA
storeAfterAdd(items, newItems, direction) ==
    IF direction \in {"right", "bottom"} THEN items \o newItems
    ELSE IF direction \in {"left", "top"} THEN newItems \o items
    ELSE items

\* a faulty variant: the append does not look at usingRealData
addMoreItems_ignoresRealData(m0, count, direction) ==
    Bind(m0, LAMBDA m :
        Bind(newItemsFor(m.ITEM_DATA, count, direction, m.globalItemIdCounter),
             LAMBDA newItems :
            [m EXCEPT
                !.ITEM_DATA = storeAfterAdd(@, newItems, direction),
                !.globalItemIdCounter =
                    IF direction \in Directions
                    THEN counterAfterGenerate(count, @ + 1)
                    ELSE @,
                !.nAppends = @ + 1,
                !.log = Append(@, [op |-> "append", dir |-> direction,
                                   count |-> count,
                                   before |-> m.ITEM_DATA,
                                   counterBefore |-> m.globalItemIdCounter,
                                   newItems |-> newItems])]))

\* addMoreItems(count, direction) on a machine record m
addMoreItems(m0, count, direction) ==
    Bind(m0, LAMBDA m :
        IF m.usingRealData THEN m
        ELSE
            Bind(newItemsFor(m.ITEM_DATA, count, direction,
                             m.globalItemIdCounter),
                 LAMBDA newItems :
                [m EXCEPT
                    !.ITEM_DATA = storeAfterAdd(@, newItems, direction),
                    !.globalItemIdCounter =
                        IF direction \in Directions
                        THEN counterAfterGenerate(count, @ + 1)
                        ELSE @,
                    !.nAppends = @ + 1,
                    !.log = Append(@, [op |-> "append", dir |-> direction,
                                       count |-> count,
                                       before |-> m.ITEM_DATA,
                                       counterBefore |-> m.globalItemIdCounter,
                                       newItems |-> newItems])]))

\* the entries of the data file that are videos (type 'video', or a src
\* ending in .mp4, .webm or .mov)
RealVideoIds == {4, 5}

\* loadItemData: the items built from a data file of n real entries with ids
\* 1..n (as extract-urls-browser.js numbers them); src "real" is a URL of the
\* album
loadItemData(n) ==
    [index0 \in 1..n |->
        LET index == index0 - 1
            row == FloorDiv(index, GRID_COLUMNS)
            column == index % GRID_COLUMNS
        IN  [id |-> index + 1,
             type |-> IF index + 1 \in RealVideoIds THEN "video" ELSE "photo",
             src |-> "real",
             x |-> column * ITEM_SIZE,
             y |-> row * ITEM_SIZE,
             column |-> column,
             row |-> row]]

----------------------------------------------------------------------------
(* app.js: canvas sizing and coordinate transforms *)

calculateCanvasDimensions(items) ==
    IF Len(items) = 0
    THEN [width |-> 0, height |-> 0]
    ELSE [width |-> GRID_COLUMNS * ITEM_SIZE,
          height |-> CeilDiv(Len(items), GRID_COLUMNS) * ITEM_SIZE]

\* initializeCanvas; size is <<viewport.clientWidth, viewport.clientHeight>>
initializeCanvas(m0, size) ==
    Bind(m0, LAMBDA m :
        LET dimensions == calculateCanvasDimensions(m.ITEM_DATA)
        IN  [m EXCEPT !.state.canvasWidth = dimensions.width,
                      !.state.canvasHeight = dimensions.height,
                      !.state.viewportWidth = size[1],
                      !.state.viewportHeight = size[2]])

updateCanvasSize(m0) ==
    Bind(m0, LAMBDA m :
        LET dimensions == calculateCanvasDimensions(m.ITEM_DATA)
        IN  [m EXCEPT !.state.canvasWidth = dimensions.width,
                      !.state.canvasHeight = dimensions.height])

\* a faulty variant: the screen point is scaled before the pan is taken off
screenToWorld_unscaledPan(st, screenX, screenY) ==
    [x |-> RSub(RDiv(RInt(screenX), st.zoom), st.panX),
     y |-> RSub(RDiv(RInt(screenY), st.zoom), st.panY)]

screenToWorld(st, screenX, screenY) ==
    [x |-> RDiv(RSub(RInt(screenX), st.panX), st.zoom),
     y |-> RDiv(RSub(RInt(screenY), st.panY), st.zoom)]

\* calculateViewportBounds with a buffer of bufferCells cells
bufferedBounds(st, bufferCells) ==
    Bind2(screenToWorld(st, 0, 0),
          screenToWorld(st, st.viewportWidth, 0),
          LAMBDA topLeft, topRight :
    Bind2(screenToWorld(st, 0, st.viewportHeight),
          screenToWorld(st, st.viewportWidth, st.viewportHeight),
          LAMBDA bottomLeft, bottomRight :
        LET left == RMin(topLeft.x, bottomLeft.x)
            right == RMax(topRight.x, bottomRight.x)
            top == RMin(topLeft.y, topRight.y)
            bottom == RMax(bottomLeft.y, bottomRight.y)
            buffer == RInt(bufferCells * ITEM_SIZE)
        IN  [left |-> RSub(left, buffer), top |-> RSub(top, buffer),
             right |-> RAdd(right, buffer), bottom |-> RAdd(bottom, buffer)]))

calculateViewportBounds(st) == bufferedBounds(st, BUFFER_SIZE)

\* updateTransform: the canvas is drawn under translate(panX, panY)
\* scale(zoom), which puts the world point w at screen point w * zoom + pan
worldToScreen(st, w) ==
    [x |-> RAdd(RMul(w.x, st.zoom), st.panX),
     y |-> RAdd(RMul(w.y, st.zoom), st.panY)]

\* a faulty variant: an item whose square only touches the bounds is left out
itemIntersectsViewport_strict(item, bounds) ==
    /\ RLt(bounds.left, RInt(item.x + ITEM_SIZE)) /\ RLt(RInt(item.x), bounds.right)
    /\ RLt(bounds.top, RInt(item.y + ITEM_SIZE)) /\ RLt(RInt(item.y), bounds.bottom)

itemIntersectsViewport(item, bounds) ==
    LET itemLeft == RInt(item.x)
        itemRight == RInt(item.x + ITEM_SIZE)
        itemTop == RInt(item.y)
        itemBottom == RInt(item.y + ITEM_SIZE)
    IN  ~(\/ RLt(itemRight, bounds.left)
          \/ RLt(bounds.right, itemLeft)
          \/ RLt(itemBottom, bounds.top)
          \/ RLt(bounds.bottom, itemTop))

findVisibleItems(st, items) ==
    Bind(calculateViewportBounds(st), LAMBDA bounds :
        SelectSeq(items, LAMBDA item : itemIntersectsViewport(item, bounds)))

----------------------------------------------------------------------------
(* app.js: the element reconciler.  renderedItems is the Map in insertion  *)
(* order: a sequence of elements [key, left, top]; the key is the item id  *)
(* (ids are positive integers, for which item.id.toString() and parseInt   *)
(* are inverse).                                                           *)

mapKeys(rendered) == {rendered[i].key : i \in 1..Len(rendered)}
mapHas(rendered, key) == key \in mapKeys(rendered)

\* a faulty variant: the element is taken out as it is
cleanupVideoElement_skipped(el) == [el EXCEPT !.wasPlaying = el.video /\ ~el.paused]

\* cleanupVideoElement: a video child is paused and its src attribute is
\* removed (wasPlaying notes whether it was playing when this began)
cleanupVideoElement(el) ==
    IF el.video
    THEN [el EXCEPT !.paused = TRUE, !.hasSrc = FALSE, !.wasPlaying = ~el.paused]
    ELSE el

\* the elements a removal loop of syncDOM takes out of the registry, each as
\* cleanupVideoElement leaves it before element.remove()
removedElements(rendered, keys) ==
    Bind(SelectSeq(rendered, LAMBDA el : el.key \in keys), LAMBDA gone :
        AsSeq([i \in 1..Len(gone) |->
                  cleanupVideoElement([key |-> gone[i].key, video |-> gone[i].video,
                                       paused |-> gone[i].paused,
                                       hasSrc |-> gone[i].hasSrc,
                                       wasPlaying |-> FALSE])]))

\* the ids of a sequence of elements
childIds(cs) == [i \in 1..Len(cs) |-> cs[i].key]

\* a faulty variant: the elements stay attached to the canvas
detachAll_keeps(children, keys) == children

\* element.remove() for the registry's elements of these keys (the registry
\* holds one element per key: one child of that id goes)
detachAll(children, keys) ==
    Bind2(children, keys, LAMBDA ch, ks :
        childIds(SelectSeq([i \in 1..Len(ch) |->
                               [key |-> ch[i],
                                last |-> \A j \in (i + 1)..Len(ch) : ch[j] # ch[i]]],
                           LAMBDA c : ~(c.key \in ks /\ c.last))))

\* a faulty variant of the deletions: nothing is ever deleted
mapDeleteAll_keeps(rendered, keys) == rendered
mapDeleteAll(rendered, keys) ==
    Bind(keys, LAMBDA ks : SelectSeq(rendered, LAMBDA el : el.key \notin ks))

\* ITEM_DATA.find(i => i.id === id): the index of the first match, 0 if none
findIndex(items, id) ==
    IF \E k \in 1..Len(items) : items[k].id = id
    THEN MinOf({k \in 1..Len(items) : items[k].id = id})
    ELSE 0

\* the element of an item: a real video (type 'video', src not of
\* sample-videos.com) gets a <video data-video-lazy> child with its src set,
\* paused as every new media element is; anything else gets an <img>
createItemElement(item) ==
    [key |-> item.id, left |-> item.x, top |-> item.y,
     video |-> item.type = "video" /\ item.src # "sample-videos",
     paused |-> TRUE,
     hasSrc |-> item.type = "video" /\ item.src # "sample-videos",
     placeholder |-> FALSE]

\* a faulty variant: the failed element is dropped from the registry
mediaError_drops(rendered, i) ==
    SelectSeq(rendered, LAMBDA el : el.key # rendered[i].key)

\* the 'error' listeners of createItemElement on the i-th live element: a
\* video's element is emptied and given a placeholder <img>; a photo's <img>
\* is restyled as a placeholder
mediaError(rendered, i) ==
    [rendered EXCEPT ![i].video = FALSE, ![i].hasSrc = FALSE,
                     ![i].paused = TRUE, ![i].placeholder = TRUE]

\* itemInActualViewport: the item's square meets the viewport without buffer
itemInActualViewport(st, item) ==
    Bind2(screenToWorld(st, 0, 0),
          screenToWorld(st, st.viewportWidth, st.viewportHeight),
          LAMBDA topLeft, bottomRight :
        ~(\/ RLt(RInt(item.x + ITEM_SIZE), topLeft.x)
          \/ RLt(bottomRight.x, RInt(item.x))
          \/ RLt(RInt(item.y + ITEM_SIZE), topLeft.y)
          \/ RLt(bottomRight.y, RInt(item.y))))

\* manageVideoPlayback: the keys of the elements whose video is asked to play
\* (video.load() first if it is paused and nothing is loaded yet)
playedKeys(st, items, rendered) ==
    {rendered[i].key : i \in {j \in 1..Len(rendered) :
        /\ rendered[j].video
        /\ findIndex(items, rendered[j].key) # 0
        /\ itemInActualViewport(st, items[findIndex(items, rendered[j].key)])}}

\* a faulty variant: a video outside the viewport is left as it is
manageVideoPlayback_noPause(st, items, rendered) ==
    Bind(playedKeys(st, items, rendered), LAMBDA played :
        AsSeq([i \in 1..Len(rendered) |->
            IF rendered[i].key \in played
            THEN [rendered[i] EXCEPT !.paused = FALSE]
            ELSE rendered[i]]))

\* manageVideoPlayback: play() un-pauses a video in the viewport (muted
\* autoplay is permitted); a video outside it is paused if it is not; an
\* element without a video, or without an item, is skipped
manageVideoPlayback(st, items, rendered) ==
    Bind(playedKeys(st, items, rendered), LAMBDA played :
        AsSeq([i \in 1..Len(rendered) |->
            IF rendered[i].key \in played
            THEN [rendered[i] EXCEPT !.paused = FALSE]
            ELSE IF rendered[i].video /\ findIndex(items, rendered[i].key) # 0
            THEN [rendered[i] EXCEPT !.paused = TRUE]
            ELSE rendered[i]]))

\* squared distance (as a rational) of an item's centre from (centerX, centerY);
\* Math.sqrt is monotone, so the descending sort compares these
distance2(item, centerX, centerY) ==
    Bind2(RSub(Rat(2 * item.x + ITEM_SIZE, 2), centerX),
          RSub(Rat(2 * item.y + ITEM_SIZE, 2), centerY),
          LAMBDA dx, dy : RAdd(RMul(dx, dx), RMul(dy, dy)))

\* a faulty variant: the candidates are sorted nearest first
RECURSIVE sortDescending_nearestFirst(_)
sortDescending_nearestFirst(ds0) ==
    Bind(ds0, LAMBDA ds :
        IF Len(ds) = 0 THEN << >>
        ELSE Bind(MinOf({i \in 1..Len(ds) :
                            \A j \in 1..Len(ds) :
                                /\ RLe(ds[i].distance, ds[j].distance)
                                /\ (j < i => RLt(ds[i].distance, ds[j].distance))}),
                  LAMBDA first :
                 <<ds[first]>> \o
                 sortDescending_nearestFirst([i \in 1..(Len(ds) - 1) |->
                                    IF i < first THEN ds[i] ELSE ds[i + 1]])))

\* itemDistances.sort((a, b) => b.distance - a.distance): stable, descending
RECURSIVE sortDescending(_)
sortDescending(ds0) ==
    Bind(ds0, LAMBDA ds :
        IF Len(ds) = 0 THEN << >>
        ELSE Bind(MinOf({i \in 1..Len(ds) :
                            \A j \in 1..Len(ds) :
                                /\ RLe(ds[j].distance, ds[i].distance)
                                /\ (j < i => RLt(ds[j].distance, ds[i].distance))}),
                  LAMBDA first :
                 <<ds[first]>> \o
                 sortDescending([i \in 1..(Len(ds) - 1) |->
                                    IF i < first THEN ds[i] ELSE ds[i + 1]])))

\* the memory-management block of syncDOM: the keys it evicts
evictedKeys(st, items, rendered, visibleItemIds) ==
    IF Len(rendered) > MAX_DOM_NODES
    THEN Bind(calculateViewportBounds(st), LAMBDA bounds :
         Bind2(RDiv(RAdd(bounds.left, bounds.right), RInt(2)),
               RDiv(RAdd(bounds.top, bounds.bottom), RInt(2)),
               LAMBDA centerX, centerY :
         Bind(SelectSeq(rendered, LAMBDA el :
                  /\ findIndex(items, el.key) # 0
                  /\ el.key \notin visibleItemIds),
              LAMBDA candidates :
         Bind(sortDescending(AsSeq(
                  [i \in 1..Len(candidates) |->
                      [itemId |-> candidates[i].key,
                       distance |->
                           distance2(items[findIndex(items, candidates[i].key)],
                                     centerX, centerY)]])),
              LAMBDA sorted :
             LET itemsToRemoveCount == Len(rendered) - MAX_DOM_NODES
             IN  {sorted[i].itemId :
                     i \in 1..(IF itemsToRemoveCount < Len(sorted)
                               THEN itemsToRemoveCount ELSE Len(sorted))}))))
    ELSE {}

\* a faulty variant: no element is found to have left the visible set
itemsToRemove_none(rendered, visibleItemIds) == {}

\* the first loop of syncDOM: the keys of the elements no longer visible
itemsToRemove(rendered, visibleItemIds) ==
    {key \in mapKeys(rendered) : key \notin visibleItemIds}

\* updateItemPositions
updateItemPositions(items, rendered) ==
    AsSeq([i \in 1..Len(rendered) |->
        LET k == findIndex(items, rendered[i].key)
        IN  IF k # 0
            THEN [rendered[i] EXCEPT !.left = items[k].x, !.top = items[k].y]
            ELSE rendered[i]])

\* the add loop of syncDOM: visible items without an element get one, in store
\* order (an id met twice in the store is added once, for its first item)
addVisible(rendered, visibleItems) ==
    Bind(SelectSeq([i \in 1..Len(visibleItems) |->
                       [item |-> visibleItems[i],
                        again |-> \E j \in 1..(i - 1) :
                                      visibleItems[j].id = visibleItems[i].id]],
                   LAMBDA t : ~t.again /\ ~mapHas(rendered, t.item.id)),
         LAMBDA missing :
        rendered \o [i \in 1..Len(missing) |-> createItemElement(missing[i].item)])

\* the part of `state` a reconciliation pass reads
Camera(st) ==
    [panX |-> st.panX, panY |-> st.panY, zoom |-> st.zoom,
     viewportWidth |-> st.viewportWidth, viewportHeight |-> st.viewportHeight]

syncDOM(m0) ==
    Bind(m0, LAMBDA m :
    Bind(findVisibleItems(m.state, m.ITEM_DATA), LAMBDA visibleItems :
    Bind({visibleItems[i].id : i \in 1..Len(visibleItems)}, LAMBDA visibleItemIds :
    Bind(itemsToRemove(m.renderedItems, visibleItemIds), LAMBDA gone1 :
    Bind(mapDeleteAll(m.renderedItems, gone1), LAMBDA r1 :
    Bind(evictedKeys(m.state, m.ITEM_DATA, r1, visibleItemIds), LAMBDA gone2 :
    Bind(mapDeleteAll(r1, gone2), LAMBDA r2 :
    Bind(addVisible(r2, visibleItems), LAMBDA r3 :
    Bind(updateItemPositions(m.ITEM_DATA, r3), LAMBDA r4 :
    Bind(manageVideoPlayback(m.state, m.ITEM_DATA, r4), LAMBDA r5 :
        [m EXCEPT !.renderedItems = r5,
                  !.canvasChildren =
                      detachAll(detachAll(@, gone1), gone2)
                          \o childIds(SubSeq(r3, Len(r2) + 1, Len(r3))),
                  !.lastSync = Camera(m.state),
                  !.log = Append(@, [op |-> "sync", state |-> m.state,
                                     items |-> m.ITEM_DATA,
                                     rendered |-> r5,
                                     played |-> playedKeys(m.state, m.ITEM_DATA, r4),
                                     newlyAttached |->
                                         childIds(SubSeq(r3, Len(r2) + 1, Len(r3))),
                                     removed |-> removedElements(m.renderedItems, gone1)
                                                 \o removedElements(r1, gone2)])]))))))))))

----------------------------------------------------------------------------
(* app.js: render scheduling and the boundary loader *)

scheduleRender(m0) ==
    Bind(m0, LAMBDA m :
        IF m.renderAnimationFrame = "null"
        THEN [m EXCEPT !.renderAnimationFrame = "handle", !.rafQueue = @ + 1]
        ELSE m)

\* one branch of checkBoundariesAndLoad
loadBranch(m0, direction) ==
    Bind([m0 EXCEPT !.isLoadingMore = TRUE], LAMBDA m1 :
        IF m1.addMoreItemsDefined
        THEN scheduleRender(
                 [updateCanvasSize(addMoreItems(m1, LOAD_COUNT, direction))
                      EXCEPT !.isLoadingMore = FALSE])
        ELSE m1)

\* the direction checkBoundariesAndLoad loads for, "none" if no branch is taken
branchTaken(st, items) ==
    Bind(calculateViewportBounds(st), LAMBDA bounds :
        LET canvasDims == calculateCanvasDimensions(items)
            threshold == RInt(LOAD_THRESHOLD)
            distanceToRight == RSub(RInt(canvasDims.width), bounds.right)
            distanceToLeft == RSub(bounds.left, RInt(0))
            distanceToBottom == RSub(RInt(canvasDims.height), bounds.bottom)
            distanceToTop == RSub(bounds.top, RInt(0))
        IN  IF RLt(distanceToRight, threshold) THEN "right"
            ELSE IF RLt(distanceToBottom, threshold) THEN "bottom"
            ELSE IF RLt(distanceToLeft, threshold) /\ RLt(bounds.left, threshold)
            THEN "left"
            ELSE IF RLt(distanceToTop, threshold) /\ RLt(bounds.top, threshold)
            THEN "top"
            ELSE "none")

\* a faulty variant: the isLoadingMore guard is not consulted
checkBoundariesAndLoad_unguarded(m0) ==
    Bind(m0, LAMBDA m :
        LET entry(dir) == [op |-> "check", loading |-> m.isLoadingMore,
                           state |-> m.state, items |-> m.ITEM_DATA,
                           counter |-> m.globalItemIdCounter, called |-> dir]
        IN  IF Len(m.ITEM_DATA) = 0
            THEN [m EXCEPT !.log = Append(@, entry("none"))]
            ELSE Bind(branchTaken(m.state, m.ITEM_DATA), LAMBDA dir :
                     IF dir = "none"
                     THEN [m EXCEPT !.log = Append(@, entry("none"))]
                     ELSE loadBranch(
                              [m EXCEPT !.log = Append(@, entry(
                                  IF m.addMoreItemsDefined THEN dir ELSE "none"))],
                              dir)))

\* checkBoundariesAndLoad; the log entry records the state it found and the
\* direction it called window.addMoreItemsToMEGHTOSH for ("none": no call)
checkBoundariesAndLoad(m0) ==
    Bind(m0, LAMBDA m :
        LET entry(dir) == [op |-> "check", loading |-> m.isLoadingMore,
                           state |-> m.state, items |-> m.ITEM_DATA,
                           counter |-> m.globalItemIdCounter, called |-> dir]
        IN  IF m.isLoadingMore \/ Len(m.ITEM_DATA) = 0
            THEN [m EXCEPT !.log = Append(@, entry("none"))]
            ELSE Bind(branchTaken(m.state, m.ITEM_DATA), LAMBDA dir :
                     IF dir = "none"
                     THEN [m EXCEPT !.log = Append(@, entry("none"))]
                     ELSE loadBranch(
                              [m EXCEPT !.log = Append(@, entry(
                                  IF m.addMoreItemsDefined THEN dir ELSE "none"))],
                              dir)))

render(m) ==
    [checkBoundariesAndLoad(syncDOM(m)) EXCEPT !.renderAnimationFrame = "null"]

loadFromCenter(m0) ==
    Bind(m0, LAMBDA m :
        LET st == m.state
            centerX == Rat(st.canvasWidth, 2)
            centerY == Rat(st.canvasHeight, 2)
        IN  render([m EXCEPT
                !.state.panX = RSub(Rat(st.viewportWidth, 2), RMul(centerX, st.zoom)),
                !.state.panY = RSub(Rat(st.viewportHeight, 2), RMul(centerY, st.zoom))]))

initialize(m, size) == loadFromCenter(initializeCanvas(m, size))

reinitializeWithNewData(m, size) == loadFromCenter(initializeCanvas(m, size))

----------------------------------------------------------------------------
(* app.js: the input handlers, on a machine record *)

handleMouseDown(m, button, clientX, clientY) ==
    IF button # 0 THEN m
    ELSE [m EXCEPT !.state.isDragging = TRUE,
                   !.state.dragStartX = clientX,
                   !.state.dragStartY = clientY,
                   !.state.dragStartPanX = m.state.panX,
                   !.state.dragStartPanY = m.state.panY,
                   !.log = Append(@, [op |-> "down", clientX |-> clientX,
                                      clientY |-> clientY])]

\* a faulty variant: the move's offset is added to the current pan, so the
\* moves of one drag accumulate
dragPan_incremental(st, clientX, clientY) ==
    [st EXCEPT !.panX = RAdd(st.panX, RInt(clientX - st.dragStartX)),
               !.panY = RAdd(st.panY, RInt(clientY - st.dragStartY))]

\* the camera update of handleMouseMove
dragPan(st, clientX, clientY) ==
    [st EXCEPT !.panX = RAdd(st.dragStartPanX, RInt(clientX - st.dragStartX)),
               !.panY = RAdd(st.dragStartPanY, RInt(clientY - st.dragStartY))]

handleMouseMove(m, clientX, clientY) ==
    IF ~m.state.isDragging THEN m
    ELSE checkBoundariesAndLoad(
             scheduleRender(
                 [m EXCEPT !.state = dragPan(m.state, clientX, clientY),
                           !.log = Append(@, [op |-> "move", clientX |-> clientX,
                                              clientY |-> clientY,
                                              panMoved |-> \/ m.state.panX # m.state.dragStartPanX
                                                           \/ m.state.panY # m.state.dragStartPanY])]))

\* a faulty variant: the end of a drag is handled whether or not a drag is
\* active
handleMouseUp_unguarded(m) ==
    scheduleRender([m EXCEPT !.state.isDragging = FALSE])

handleMouseUp(m) ==
    IF ~m.state.isDragging THEN m
    ELSE scheduleRender([m EXCEPT !.state.isDragging = FALSE])

\* a faulty variant: the zoom changes but the pan is not adjusted, so the
\* canvas scales about its origin instead of the cursor
wheelZoom_aboutOrigin(st, deltaY, clientX, clientY) ==
    LET zoomSensitivity == Rat(1, 10)
        zoomDelta == RDiv(RMul(RInt(-deltaY), zoomSensitivity), RInt(1000))
    IN  [st EXCEPT !.zoom = RMax(Rat(1, 10), RMin(RInt(5), RAdd(st.zoom, zoomDelta)))]

\* a faulty variant: the new zoom is not clamped
wheelZoom_unclamped(st, deltaY, clientX, clientY) ==
    LET zoomSensitivity == Rat(1, 10)
        zoomDelta == RDiv(RMul(RInt(-deltaY), zoomSensitivity), RInt(1000))
        newZoom == RAdd(st.zoom, zoomDelta)
        worldX == RDiv(RSub(RInt(clientX), st.panX), st.zoom)
        worldY == RDiv(RSub(RInt(clientY), st.panY), st.zoom)
    IN  [st EXCEPT !.zoom = newZoom,
                   !.panX = RSub(RInt(clientX), RMul(worldX, newZoom)),
                   !.panY = RSub(RInt(clientY), RMul(worldY, newZoom))]

\* the camera update of handleWheel; the viewport's client rectangle starts at
\* (0, 0), so mouseX = clientX and mouseY = clientY
wheelZoom(st, deltaY, clientX, clientY) ==
    LET zoomSensitivity == Rat(1, 10)
        zoomDelta == RDiv(RMul(RInt(-deltaY), zoomSensitivity), RInt(1000))
        newZoom == RMax(Rat(1, 10), RMin(RInt(5), RAdd(st.zoom, zoomDelta)))
        mouseX == RInt(clientX)
        mouseY == RInt(clientY)
        worldX == RDiv(RSub(mouseX, st.panX), st.zoom)
        worldY == RDiv(RSub(mouseY, st.panY), st.zoom)
    IN  [st EXCEPT !.zoom = newZoom,
                   !.panX = RSub(mouseX, RMul(worldX, newZoom)),
                   !.panY = RSub(mouseY, RMul(worldY, newZoom))]

handleWheel(m, deltaY, clientX, clientY) ==
    checkBoundariesAndLoad(
        scheduleRender(
            [m EXCEPT !.state = wheelZoom(m.state, deltaY, clientX, clientY),
                      !.log = Append(@, [op |-> "wheel", before |-> m.state,
                                         deltaY |-> deltaY, clientX |-> clientX,
                                         clientY |-> clientY])]))

\* a faulty variant: the viewport is updated but no render is scheduled
handleResize_unscheduled(m, size) ==
    [m EXCEPT !.state.viewportWidth = size[1],
              !.state.viewportHeight = size[2]]

handleResize(m, size) ==
    scheduleRender([m EXCEPT !.state.viewportWidth = size[1],
                             !.state.viewportHeight = size[2]])

\* handleDoubleClick on the element with this key (0: no grid item under the
\* pointer), followed by downloadMedia(item).  The download runs on after
\* the handler returns and ends in a saved file or in an alert; neither
\* touches a variable of the engine, so its outcome is recorded with the
\* double-click.
handleDoubleClick(m, key, outcome) ==
    IF ~mapHas(m.renderedItems, key) \/ key = 0 \/ findIndex(m.ITEM_DATA, key) = 0
    THEN m
    ELSE [m EXCEPT !.state.isDragging = FALSE,
                   !.log = Append(@, [op |-> "dblclick", item |-> key,
                                      download |-> outcome,
                                      before |-> [state |-> m.state,
                                                  renderedItems |-> m.renderedItems,
                                                  ITEM_DATA |-> m.ITEM_DATA,
                                                  renderAnimationFrame |->
                                                      m.renderAnimationFrame]])]

\* data.js, loadItemData().then with real data: the store is replaced and the
\* engine re-initialized
loadRealData(m, n, size) ==
    reinitializeWithNewData([m EXCEPT !.ITEM_DATA = loadItemData(n),
                                      !.usingRealData = TRUE], size)

\* the browser running the frame callbacks requested before this frame
RECURSIVE runCallbacks(_, _)
runCallbacks(m, k) == IF k = 0 THEN m ELSE runCallbacks(render(m), k - 1)

----------------------------------------------------------------------------
(* The state machine *)

\* the program state as a machine record, at the start of a turn
Cur ==
    [state |-> state, renderedItems |-> renderedItems,
     canvasChildren |-> canvasChildren,
     renderAnimationFrame |-> renderAnimationFrame,
     isLoadingMore |-> isLoadingMore, ITEM_DATA |-> ITEM_DATA,
     globalItemIdCounter |-> globalItemIdCounter,
     usingRealData |-> usingRealData,
     addMoreItemsDefined |-> addMoreItemsDefined,
     rafQueue |-> rafQueue, nAppends |-> nAppends, lastSync |-> lastSync,
     log |-> << >>]

\* the panning window of the model: the world point at the viewport's
\* top-left corner, -pan / zoom, lies within MaxPan of the world origin
InWindow(st) ==
    /\ RLe(RMul(RInt(-MaxPan), st.zoom), st.panX) /\ RLe(st.panX, RInt(0))
    /\ RLe(RMul(RInt(-MaxPan), st.zoom), st.panY) /\ RLe(st.panY, RInt(0))

\* the turn's result r, evaluated once, becomes the next state (within the
\* model's bounds)
Apply(r) ==
    \E m \in {r} :
        /\ m.nAppends <= MaxAppends
        /\ InWindow(m.state)
        /\ state' = m.state
        /\ renderedItems' = m.renderedItems
        /\ canvasChildren' = m.canvasChildren
        /\ renderAnimationFrame' = m.renderAnimationFrame
        /\ isLoadingMore' = m.isLoadingMore
        /\ ITEM_DATA' = m.ITEM_DATA
        /\ globalItemIdCounter' = m.globalItemIdCounter
        /\ usingRealData' = m.usingRealData
        /\ addMoreItemsDefined' = m.addMoreItemsDefined
        /\ rafQueue' = m.rafQueue
        /\ nAppends' = m.nAppends
        /\ lastSync' = m.lastSync
        /\ log' = m.log

\* app.js:14-35 and data.js:150-152, before initialize() has run
Constructed(defined) ==
    [state |-> [panX |-> RInt(0), panY |-> RInt(0), zoom |-> RInt(1),
                isDragging |-> FALSE, dragStartX |-> 0, dragStartY |-> 0,
                dragStartPanX |-> RInt(0), dragStartPanY |-> RInt(0),
                viewportWidth |-> 0, viewportHeight |-> 0,
                canvasWidth |-> 0, canvasHeight |-> 0],
     renderedItems |-> << >>,
     canvasChildren |-> << >>,
     renderAnimationFrame |-> "null",
     isLoadingMore |-> FALSE,
     ITEM_DATA |-> generateItemData(INITIAL_ITEMS, 1, 0),
     globalItemIdCounter |-> counterAfterGenerate(INITIAL_ITEMS, 1),
     usingRealData |-> FALSE,
     addMoreItemsDefined |-> defined,
     rafQueue |-> 0, nAppends |-> 0, lastSync |-> [none |-> TRUE],
     log |-> << >>]

\* the state once the scripts have loaded and initialize() has run on m0
InitFrom(m0) ==
    \E size \in ViewSizes :
        \E m \in {initialize(m0, size)} :
            /\ state = m.state
            /\ renderedItems = m.renderedItems
            /\ canvasChildren = m.canvasChildren
            /\ renderAnimationFrame = m.renderAnimationFrame
            /\ isLoadingMore = m.isLoadingMore
            /\ ITEM_DATA = m.ITEM_DATA
            /\ globalItemIdCounter = m.globalItemIdCounter
            /\ usingRealData = m.usingRealData
            /\ addMoreItemsDefined = m.addMoreItemsDefined
            /\ rafQueue = m.rafQueue
            /\ nAppends = m.nAppends
            /\ lastSync = m.lastSync
            /\ log = m.log
            /\ loadPending = TRUE
            /\ nWheel = 0
            /\ nEvents = 0

\* an input event's turn: r is the handler's result.  Events that change
\* nothing (a move without a drag, a non-primary button) are not counted
\* against the run's bound.
Event(r) ==
    \E m \in {r} :
        /\ Apply(m)
        /\ IF m = Cur
           THEN nEvents' = nEvents
           ELSE nEvents < MaxEvents /\ nEvents' = nEvents + 1

\* data.js has defined window.addMoreItemsToMEGHTOSH before initialize() runs
Init == InitFrom(Constructed(TRUE))

MouseDown ==
    \E button \in Buttons, p \in DownPoints :
        /\ Event(handleMouseDown(Cur, button, p[1], p[2]))
        /\ UNCHANGED <<loadPending, nWheel>>

MouseMove ==
    \E p \in MovePoints :
        /\ Event(handleMouseMove(Cur, p[1], p[2]))
        /\ UNCHANGED <<loadPending, nWheel>>

MouseUp ==
    /\ Event(handleMouseUp(Cur))
    /\ UNCHANGED <<loadPending, nWheel>>

Wheel ==
    \E deltaY \in WheelDeltas, p \in WheelPoints :
        /\ nWheel < MaxWheel
        /\ Event(handleWheel(Cur, deltaY, p[1], p[2]))
        /\ nWheel' = nWheel + 1
        /\ UNCHANGED loadPending

Resize ==
    \E size \in ViewSizes :
        /\ Event(handleResize(Cur, size))
        /\ UNCHANGED <<loadPending, nWheel>>

\* the loadItemData() promise settles with real data
LoadRealData ==
    \E n \in RealDataSizes :
        /\ loadPending
        /\ Apply(loadRealData(Cur, n, <<state.viewportWidth, state.viewportHeight>>))
        /\ loadPending' = FALSE
        /\ UNCHANGED <<nWheel, nEvents>>

\* the loadItemData() promise settles with null (no file, or placeholder URLs)
LoadNoData ==
    /\ loadPending
    /\ Apply(Cur)
    /\ loadPending' = FALSE
    /\ UNCHANGED <<nWheel, nEvents>>

\* a display frame: every callback requested before it runs, in order
Frame ==
    /\ rafQueue > 0
    /\ Apply(runCallbacks([Cur EXCEPT !.rafQueue = 0], rafQueue))
    /\ UNCHANGED <<loadPending, nWheel, nEvents>>

Next ==
    \/ MouseDown
    \/ MouseMove
    \/ MouseUp
    \/ Wheel
    \/ Resize
    \/ LoadRealData
    \/ LoadNoData
    \/ Frame

Spec == Init /\ [][Next]_vars

\* the browser runs the frame callbacks whenever some are outstanding: in the
\* program a frame is enabled exactly when rafQueue > 0, so this is weak
\* fairness of Frame, WF_vars(Frame), with that enabling condition written
\* out.  (A run that MaxAppends cuts short of an outstanding frame is not a
\* run of the program.)
SpecFair == Spec /\ ([]<>(rafQueue = 0) \/ []<><<Frame>>_vars)

----------------------------------------------------------------------------
(* The item store on its own: any sequence of calls of the global          *)
(* window.addMoreItemsToMEGHTOSH(count, direction), each followed by       *)
(* updateCanvasSize() as in the branches of checkBoundariesAndLoad.        *)

StoreAppend ==
    \E count \in AppendCounts, direction \in Directions :
        \E m \in {updateCanvasSize(addMoreItems(Cur, count, direction))} :
            /\ nAppends < MaxStoreAppends
            /\ ITEM_DATA' = m.ITEM_DATA
            /\ globalItemIdCounter' = m.globalItemIdCounter
            /\ state' = m.state
            /\ nAppends' = m.nAppends
            /\ log' = m.log
            /\ UNCHANGED <<renderedItems, canvasChildren, renderAnimationFrame,
                           isLoadingMore, usingRealData, addMoreItemsDefined, loadPending,
                           rafQueue, nWheel, nEvents, lastSync>>

NextStore == StoreAppend

SpecStore == Init /\ [][NextStore]_vars

----------------------------------------------------------------------------
(* The camera under any wheel input: the engine with wheel events whose    *)
(* deltas reach both ends of the zoom range, several in one run.           *)

\* wheel deltas: a step of 0.5 either way, and steps that reach the clamp
ZoomDeltas == {-50000, -5000, 5000, 50000}

WheelAny ==
    \E deltaY \in ZoomDeltas, p \in WheelPoints :
        /\ nWheel < MaxZoomSteps
        /\ Event(handleWheel(Cur, deltaY, p[1], p[2]))
        /\ nWheel' = nWheel + 1
        /\ UNCHANGED loadPending

NextCamera ==
    \/ MouseDown
    \/ MouseMove
    \/ MouseUp
    \/ WheelAny
    \/ Resize
    \/ Frame

SpecCamera == Init /\ [][NextCamera]_vars

----------------------------------------------------------------------------
(* The engine showing real data: the loadItemData() promise has settled    *)
(* with the data file's items before the first input event; real videos    *)
(* get video elements, whose error events arrive at any time.              *)

InitVideo ==
    \E size \in ViewSizes, n \in RealDataSizes :
        \E m \in {loadRealData([initialize(Constructed(TRUE), size) EXCEPT !.log = << >>],
                                n, size)} :
            /\ state = m.state
            /\ renderedItems = m.renderedItems
            /\ canvasChildren = m.canvasChildren
            /\ renderAnimationFrame = m.renderAnimationFrame
            /\ isLoadingMore = m.isLoadingMore
            /\ ITEM_DATA = m.ITEM_DATA
            /\ globalItemIdCounter = m.globalItemIdCounter
            /\ usingRealData = m.usingRealData
            /\ addMoreItemsDefined = m.addMoreItemsDefined
            /\ rafQueue = m.rafQueue
            /\ nAppends = m.nAppends
            /\ lastSync = m.lastSync
            /\ log = m.log
            /\ loadPending = FALSE
            /\ nWheel = 0
            /\ nEvents = 0

\* the photos of the data file whose URL fails to load
BrokenPhotoIds == {3}

\* what an error turn found: the registry's keys, the camera state, the store
errorEntry(m, key) ==
    [op |-> "error", key |-> key,
     before |-> [keys |-> mapKeys(m.renderedItems), state |-> m.state,
                 ITEM_DATA |-> m.ITEM_DATA]]

\* createItemElement's 'error' listener of a video: the element's content is
\* replaced by an <img>
VideoError ==
    \E i \in 1..Len(renderedItems) :
        /\ renderedItems[i].video
        /\ Apply([Cur EXCEPT !.renderedItems = mediaError(@, i),
                             !.log = <<errorEntry(Cur, renderedItems[i].key)>>])
        /\ UNCHANGED <<loadPending, nWheel, nEvents>>

\* createItemElement's onerror of a photo's <img>
PhotoError ==
    \E i \in 1..Len(renderedItems) :
        /\ ~renderedItems[i].video
        /\ ~renderedItems[i].placeholder
        /\ renderedItems[i].key \in BrokenPhotoIds
        /\ Apply([Cur EXCEPT !.renderedItems = mediaError(@, i),
                             !.log = <<errorEntry(Cur, renderedItems[i].key)>>])
        /\ UNCHANGED <<loadPending, nWheel, nEvents>>

NextVideo ==
    \/ MouseDown
    \/ MouseMove
    \/ MouseUp
    \/ Wheel
    \/ Resize
    \/ Frame
    \/ VideoError
    \/ PhotoError

SpecVideo == InitVideo /\ [][NextVideo]_vars

----------------------------------------------------------------------------
(* The engine with double-click downloads: pointer events, frames and      *)
(* dblclick events on the viewport.                                        *)

\* the element double-clicked: none (0), or the element of item 6
DblClickKeys == {0, 6}
\* how downloadMedia ends
DownloadOutcomes == {"saved", "failed"}

DoubleClick ==
    \E key \in DblClickKeys, outcome \in DownloadOutcomes :
        /\ Event(handleDoubleClick(Cur, key, outcome))
        /\ UNCHANGED <<loadPending, nWheel>>

NextDownload ==
    \/ MouseDown
    \/ MouseMove
    \/ MouseUp
    \/ DoubleClick
    \/ Frame

SpecDownload == Init /\ [][NextDownload]_vars

----------------------------------------------------------------------------
(* The engine showing real data with fair display frames: the browser runs *)
(* the frame callbacks whenever some are outstanding.                      *)

NextRealData ==
    \/ MouseDown
    \/ MouseMove
    \/ MouseUp
    \/ Wheel
    \/ Resize
    \/ Frame

SpecRealData == InitVideo /\ [][NextRealData]_vars /\ WF_vars(Frame)

----------------------------------------------------------------------------
(* The engine without an append function: window.addMoreItemsToMEGHTOSH is *)
(* not a function when initialize() runs and later (the case the typeof    *)
(* tests of checkBoundariesAndLoad provide for).                           *)

InitNoAppend == InitFrom(Constructed(FALSE))

NextNoAppend ==
    \/ MouseDown
    \/ MouseMove
    \/ MouseUp
    \/ Wheel
    \/ Resize
    \/ Frame

SpecNoAppend == InitNoAppend /\ [][NextNoAppend]_vars

----------------------------------------------------------------------------
(* The engine with an append in flight: isLoadingMore is set when          *)
(* initialize() runs and nothing completes the append.                     *)

InitInFlight == InitFrom([Constructed(TRUE) EXCEPT !.isLoadingMore = TRUE])

SpecInFlight == InitInFlight /\ [][Next]_vars

----------------------------------------------------------------------------
(* What the last turn did *)

Entries(kind) == {log[i] : i \in {j \in DOMAIN log : log[j].op = kind}}
PassCount == Cardinality({i \in DOMAIN log : log[i].op = "sync"})

\* the store's extent in world pixels, from the items themselves
ExtentLeft(items) == MinOf({items[k].x : k \in 1..Len(items)})
ExtentRight(items) == MaxOf({items[k].x : k \in 1..Len(items)}) + ITEM_SIZE
ExtentTop(items) == MinOf({items[k].y : k \in 1..Len(items)})
ExtentBottom(items) == MaxOf({items[k].y : k \in 1..Len(items)}) + ITEM_SIZE
MinColumn(items) == MinOf({items[k].column : k \in 1..Len(items)})
MaxColumn(items) == MaxOf({items[k].column : k \in 1..Len(items)})
MinRow(items) == MinOf({items[k].row : k \in 1..Len(items)})
MaxRow(items) == MaxOf({items[k].row : k \in 1..Len(items)})
Ids(items) == {items[k].id : k \in 1..Len(items)}

\* an item's cell square overlaps the buffered bounds of camera st
CellOverlaps(item, st) ==
    LET b == calculateViewportBounds(st)
    IN  /\ RLe(b.left, RInt(item.x + ITEM_SIZE)) /\ RLe(RInt(item.x), b.right)
        /\ RLe(b.top, RInt(item.y + ITEM_SIZE)) /\ RLe(RInt(item.y), b.bottom)

\* the visible set S of a pass: the ids of the overlapping items
VisibleIds(e) == {e.items[k].id : k \in {j \in 1..Len(e.items) :
                                            CellOverlaps(e.items[j], e.state)}}

\* the buffered-bounds edge is within LOAD_THRESHOLD of the store's extent edge
NearEdge(direction, st, items) ==
    LET b == calculateViewportBounds(st)
        t == RInt(LOAD_THRESHOLD)
    IN  CASE direction = "right" -> RLt(RSub(RInt(ExtentRight(items)), b.right), t)
          [] direction = "bottom" -> RLt(RSub(RInt(ExtentBottom(items)), b.bottom), t)
          [] direction = "left" -> RLt(RSub(b.left, RInt(ExtentLeft(items))), t)
          [] direction = "top" -> RLt(RSub(b.top, RInt(ExtentTop(items))), t)

----------------------------------------------------------------------------
(* Claims *)

\* C1: at most one reconciliation pass (syncDOM) runs per display frame,
\* however many input events came between two frames (the passes of a turn
\* are the "sync" entries of its log; only a frame runs more than one).
C1_OnePassPerFrame == PassCount <= 1

\* C2: a turn in which checkBoundariesAndLoad called the append leaves a frame
\* callback outstanding, so that a further reconciliation pass runs after the
\* append without another input event.
C2_AppendIsFollowedByPass ==
    (\E e \in Entries("check") : e.called # "none") => rafQueue > 0

\* C3: whenever the camera differs from the one the last pass used, a frame
\* callback is outstanding (so every camera mutation by continue-drag,
\* end-drag, wheel or resize leaves one outstanding); the last pass of a turn
\* uses the camera as it is at the end of the turn; and, frames being fair, a
\* dirty camera leads to a turn that ran a pass with the camera as it then is.
CameraDirty == lastSync # Camera(state)
C3_FinalCameraRendered ==
    /\ [](CameraDirty => rafQueue > 0)
    /\ [](PassCount > 0 => ~CameraDirty)
    /\ (CameraDirty ~> (PassCount > 0 /\ ~CameraDirty))
C3_Witness ==
    /\ PassCount > 0 /\ ~CameraDirty
    /\ loadPending /\ nEvents >= 2
    /\ lastSync.zoom # RInt(1)

\* C4: at the end of every reconciliation pass the registry holds exactly the
\* ids of the items whose cell square overlaps the buffered bounds.
C4_RegistryIsVisibleSet ==
    \A e \in Entries("sync") : mapKeys(e.rendered) = VisibleIds(e)
C4_Witness ==
    \E e \in Entries("sync") :
        /\ VisibleIds(e) # {}
        /\ Ids(e.items) \ VisibleIds(e) # {}
        /\ nAppends > 0

\* C5: at the end of every reconciliation pass the number of live elements is
\* at most MAX_DOM_NODES, unless the visible set itself is larger, and then
\* every item of the visible set is live.
C5_CapUnlessVisibleExceeds ==
    \A e \in Entries("sync") :
        \/ Len(e.rendered) <= MAX_DOM_NODES
        \/ /\ Cardinality(VisibleIds(e)) > MAX_DOM_NODES
           /\ VisibleIds(e) \subseteq mapKeys(e.rendered)
C5_Witness ==
    /\ \E e \in Entries("sync") : Cardinality(VisibleIds(e)) > MAX_DOM_NODES
    /\ nEvents > 0

\* C6: a boundary check made with no append in flight and a non-empty store
\* calls the append for every direction whose buffered-bounds edge is within
\* LOAD_THRESHOLD of the store's extent edge.
C6_EveryNearDirectionLoads ==
    \A e \in Entries("check") :
        (~e.loading /\ Len(e.items) > 0) =>
            \A d \in Directions :
                NearEdge(d, e.state, e.items) => e.called = d

\* C7: a boundary check that runs while isLoadingMore is set calls no append
\* and changes nothing: the store, the id counter, the camera record and the
\* guard are as the check found them.
C7_GuardedCheckIsNoOp ==
    \A e \in Entries("check") :
        e.loading =>
            /\ e.called = "none"
            /\ Entries("append") = {}
            /\ ITEM_DATA = e.items
            /\ globalItemIdCounter = e.counter
            /\ state = e.state
            /\ isLoadingMore
C7_Witness ==
    \E e \in Entries("check") :
        /\ e.loading
        /\ branchTaken(e.state, e.items) # "none"
        /\ nEvents > 0

\* C8: canvasWidth and canvasHeight equal the world-pixel extent spanned by
\* the store's items.
C8_CanvasIsExtent ==
    ~usingRealData =>
        /\ state.canvasWidth =
               (MaxColumn(ITEM_DATA) - MinColumn(ITEM_DATA) + 1) * ITEM_SIZE
        /\ state.canvasHeight =
               (MaxRow(ITEM_DATA) - MinRow(ITEM_DATA) + 1) * ITEM_SIZE

\* C9: the ids of the store are pairwise distinct, and an append of count
\* items assigns exactly the ids previousMaxId+1 .. previousMaxId+count.
C9_IdsContinue ==
    /\ \A i, j \in 1..Len(ITEM_DATA) :
           ITEM_DATA[i].id = ITEM_DATA[j].id => i = j
    /\ \A e \in Entries("append") :
           LET previousMaxId == MaxOf(Ids(e.before))
           IN  /\ Len(e.newItems) = e.count
               /\ Ids(e.newItems) = (previousMaxId + 1)..(previousMaxId + e.count)
               /\ Cardinality(Ids(e.newItems)) = e.count
C9_Witness ==
    /\ nAppends >= 3
    /\ \E e \in Entries("append") :
           e.dir = "left" /\ MaxOf(Ids(e.before)) > INITIAL_ITEMS

\* C10: a left append puts the new items in contiguous columns ending at the
\* old minimum column - 1, with rows starting at the old minimum row; a top
\* append puts them in contiguous rows ending at the old minimum row - 1.
C10_LeftTopTiling ==
    \A e \in Entries("append") :
        LET cols == {e.newItems[k].column : k \in 1..Len(e.newItems)}
            rows == {e.newItems[k].row : k \in 1..Len(e.newItems)}
        IN  /\ e.dir = "left" =>
                /\ \A c \in cols : c < MinColumn(e.before)
                /\ cols = MinOf(cols)..(MinColumn(e.before) - 1)
                /\ MinOf(rows) = MinRow(e.before)
            /\ e.dir = "top" =>
                /\ \A r \in rows : r < MinRow(e.before)
                /\ rows = MinOf(rows)..(MinRow(e.before) - 1)
C10_Witness ==
    \E e \in Entries("append") :
        /\ e.dir = "left"
        /\ MinColumn(e.before) < 0
        /\ MinRow(e.before) < 0

\* C11: an append in any direction leaves every pre-existing item as it was
\* (id, column, row, x, y) and in its order: the store after the append,
\* without the newly created items, is the store before it.
C11_AppendKeepsOldItems ==
    \A e \in Entries("append") :
        /\ SelectSeq(ITEM_DATA, LAMBDA item : item.id \notin Ids(e.newItems))
               = e.before
        /\ Len(ITEM_DATA) = Len(e.before) + Len(e.newItems)
C11_Witness ==
    \E e \in Entries("append") :
        /\ e.dir \in {"left", "top"}
        /\ Len(e.before) > INITIAL_ITEMS
        /\ MinColumn(e.before) < 0
        /\ Len(ITEM_DATA) > Len(e.before)

\* C12: every item of the store has x = column * ITEM_SIZE and
\* y = row * ITEM_SIZE, after the initial generation and after any appends
\* (negative columns and rows included).
C12_PositionMatchesCell ==
    \A k \in 1..Len(ITEM_DATA) :
        /\ ITEM_DATA[k].x = ITEM_DATA[k].column * ITEM_SIZE
        /\ ITEM_DATA[k].y = ITEM_DATA[k].row * ITEM_SIZE
C12_Witness ==
    /\ \E k \in 1..Len(ITEM_DATA) : ITEM_DATA[k].column < 0 /\ ITEM_DATA[k].row < 0
    /\ \E e \in Entries("append") : e.dir = "top" /\ e.count = 3

\* C13: after a wheel zoom at screen point p, with any delta (those that hit
\* the zoom clamp included) and whether or not a drag is active, the world
\* point under p with the new pan and zoom is the world point under p with
\* the pan and zoom before the event.
C13_ZoomKeepsPointUnderCursor ==
    \A e \in Entries("wheel") :
        screenToWorld(state, e.clientX, e.clientY)
            = screenToWorld(e.before, e.clientX, e.clientY)
C13_Witness ==
    \E e \in Entries("wheel") :
        /\ e.before.isDragging
        /\ e.deltaY = 50000
        /\ state.zoom = Rat(1, 10)
        /\ e.before.zoom # RInt(1)
        /\ state.panX # e.before.panX

\* the zoom a wheel event asks for, before clamping: the old zoom plus the
\* wheel delta scaled by the sensitivity (-deltaY * 0.1 / 1000)
RequestedZoom(e) == RAdd(e.before.zoom, Rat(-e.deltaY, 10000))

\* C14: the zoom factor always lies in [0.1, 5.0]; a wheel event sets it to
\* the requested zoom clamped to that range; and no other operation changes
\* it (a step that changes the zoom is a wheel event's turn, and the
\* re-initialization with real data keeps the zoom).
C14_ZoomClampedAndWheelOnly ==
    /\ [](/\ RLe(Rat(1, 10), state.zoom) /\ RLe(state.zoom, RInt(5))
          /\ \A e \in Entries("wheel") :
                state.zoom = IF RLt(RequestedZoom(e), Rat(1, 10)) THEN Rat(1, 10)
                             ELSE IF RLt(RInt(5), RequestedZoom(e)) THEN RInt(5)
                             ELSE RequestedZoom(e)
          /\ \A n \in RealDataSizes, size \in ViewSizes :
                loadRealData(Cur, n, size).state.zoom = state.zoom)
    /\ [][state'.zoom # state.zoom => Entries("wheel")' # {}]_vars
C14_Witness ==
    \E e \in Entries("wheel") :
        /\ RLt(RInt(5), RequestedZoom(e))
        /\ state.zoom = RInt(5)
        /\ RLt(RInt(1), e.before.zoom)

\* the drag anchor: the screen point and the pan recorded by handleMouseDown
Anchor(st) == <<st.dragStartX, st.dragStartY, st.dragStartPanX, st.dragStartPanY>>

\* C15: while a drag is active, after every continue-drag event at screen
\* point q the pan is the anchor pan plus (q - anchor screen point), where the
\* anchor is the screen point and the pan recorded at begin-drag (only a
\* begin-drag changes it, and it leaves the pan as it is); so the pan depends
\* on q and the anchor only, not on the moves in between.
C15_DragPanFromAnchor ==
    /\ [](\A e \in Entries("move") :
            /\ state.panX = RAdd(state.dragStartPanX, RInt(e.clientX - state.dragStartX))
            /\ state.panY = RAdd(state.dragStartPanY, RInt(e.clientY - state.dragStartY)))
    /\ [](\A e \in Entries("down") :
            /\ state.isDragging
            /\ Anchor(state) = <<e.clientX, e.clientY, state.panX, state.panY>>)
    /\ [][Anchor(state)' # Anchor(state) => Entries("down")' # {}]_vars
    /\ [][Entries("down")' # {} => Camera(state)' = Camera(state)]_vars
C15_Witness ==
    \E e \in Entries("move") :
        /\ e.panMoved
        /\ state.isDragging
        /\ <<e.clientX, e.clientY>> # <<state.dragStartX, state.dragStartY>>
        /\ state.panX # state.dragStartPanX

\* C16: a mouse-down with a non-primary button leaves the whole camera state
\* as it is and starts no drag; a mouse-move or a mouse-up received while no
\* drag is active leaves the camera state, the registry and the store as
\* they are, schedules no render and runs no boundary check.  (The handler's
\* result is the machine it was given: no field changes, no frame is
\* requested, nothing is logged.)
C16_IgnoredEventsChangeNothing ==
    /\ \A button \in Buttons \ {0}, p \in DownPoints :
            handleMouseDown(Cur, button, p[1], p[2]) = Cur
    /\ ~state.isDragging =>
            /\ \A p \in MovePoints : handleMouseMove(Cur, p[1], p[2]) = Cur
            /\ handleMouseUp(Cur) = Cur
C16_Witness ==
    /\ ~state.isDragging
    /\ Anchor(state) # <<0, 0, state.panX, state.panY>>
    /\ renderAnimationFrame = "null"
    /\ rafQueue = 0
    /\ ~isLoadingMore
    /\ \E p \in MovePoints : dragPan(state, p[1], p[2]) # state
    /\ log = << >>

\* the viewport rectangle (0, 0)..(viewportWidth, viewportHeight) in world
\* space, grown by bufferCells cells on every side
GrownViewport(st, bufferCells) ==
    [left |-> RSub(RDiv(RSub(RInt(0), st.panX), st.zoom), RInt(bufferCells * ITEM_SIZE)),
     top |-> RSub(RDiv(RSub(RInt(0), st.panY), st.zoom), RInt(bufferCells * ITEM_SIZE)),
     right |-> RAdd(RDiv(RSub(RInt(st.viewportWidth), st.panX), st.zoom),
                    RInt(bufferCells * ITEM_SIZE)),
     bottom |-> RAdd(RDiv(RSub(RInt(st.viewportHeight), st.panY), st.zoom),
                     RInt(bufferCells * ITEM_SIZE))]

\* the closed square of side ITEM_SIZE at (x, y) and the rectangle b share a
\* point
SquareMeets(x, y, b) ==
    /\ RLe(b.left, RInt(x + ITEM_SIZE)) /\ RLe(RInt(x), b.right)
    /\ RLe(b.top, RInt(y + ITEM_SIZE)) /\ RLe(RInt(y), b.bottom)

\* the camera of the documented example: pan (0, 0), zoom 1, viewport 800x600
ExampleCamera ==
    [Constructed(TRUE).state EXCEPT !.viewportWidth = 800, !.viewportHeight = 600]

\* C17: the buffered bounds are the viewport rectangle mapped to world space
\* and grown by BUFFER_SIZE * ITEM_SIZE on all four sides, and an item is
\* selected as visible exactly when its cell square is not disjoint from
\* them; with pan (0, 0), zoom 1, an 800x600 viewport, cells of 200 and a
\* buffer of 3 the bounds are (-600, -600)..(1400, 1200) and the item at
\* cell (4, 0) is selected.
C17_BufferedBoundsAndSelection ==
    /\ calculateViewportBounds(state) = GrownViewport(state, BUFFER_SIZE)
    /\ Ids(findVisibleItems(state, ITEM_DATA))
           = {ITEM_DATA[k].id : k \in {j \in 1..Len(ITEM_DATA) :
                 SquareMeets(ITEM_DATA[j].x, ITEM_DATA[j].y,
                             GrownViewport(state, BUFFER_SIZE))}}
    /\ bufferedBounds(ExampleCamera, SourceBufferSize)
           = [left |-> RInt(-600), top |-> RInt(-600),
              right |-> RInt(1400), bottom |-> RInt(1200)]
    /\ itemIntersectsViewport([x |-> 4 * ITEM_SIZE, y |-> 0],
                              bufferedBounds(ExampleCamera, SourceBufferSize))
C17_Witness ==
    /\ state.zoom # RInt(1)
    /\ Len(findVisibleItems(state, ITEM_DATA)) \in 1..(Len(ITEM_DATA) - 1)
    /\ \E k \in 1..Len(ITEM_DATA) :
           /\ ITEM_DATA[k].column < 0
           /\ RInt(ITEM_DATA[k].x + ITEM_SIZE) = GrownViewport(state, BUFFER_SIZE).left

\* the live video elements of a pass whose item's cell square meets the
\* viewport rectangle itself (no buffer), by key
VideosInView(e) ==
    {e.rendered[i].key : i \in {j \in 1..Len(e.rendered) :
        /\ e.rendered[j].video
        /\ \E k \in 1..Len(e.items) :
              /\ e.items[k].id = e.rendered[j].key
              /\ SquareMeets(e.items[k].x, e.items[k].y, GrownViewport(e.state, 0))}}

\* C18: at the end of every reconciliation pass every live real-video
\* element whose cell overlaps the unbuffered viewport has been asked to
\* play, every other live video element is paused, and every live video
\* element still has its source (pausing does not detach it).
C18_VideosPlayOnlyInView ==
    \A e \in Entries("sync") :
        \A i \in 1..Len(e.rendered) :
            e.rendered[i].video =>
                /\ e.rendered[i].hasSrc
                /\ IF e.rendered[i].key \in VideosInView(e)
                   THEN e.rendered[i].key \in e.played /\ ~e.rendered[i].paused
                   ELSE e.rendered[i].key \notin e.played /\ e.rendered[i].paused
C18_Witness ==
    \E e \in Entries("sync") :
        /\ VideosInView(e) # {}
        /\ \E i \in 1..Len(e.rendered) :
              /\ e.rendered[i].video
              /\ e.rendered[i].key \notin VideosInView(e)
        /\ \E i \in 1..Len(e.rendered) : ~e.rendered[i].video

\* C19: a double-click download, whether it succeeds or fails, leaves the
\* engine state as it was: pan, zoom, drag state, viewport and canvas
\* dimensions, the registry, the store and the pending-frame flag are the same
\* after the double-click turn as before it.
C19_DownloadLeavesStateUnchanged ==
    \A e \in Entries("dblclick") :
        /\ state = e.before.state
        /\ renderedItems = e.before.renderedItems
        /\ ITEM_DATA = e.before.ITEM_DATA
        /\ renderAnimationFrame = e.before.renderAnimationFrame

\* screen points: those of the pointer events, the viewport's far corner,
\* and one off the grid's lines
ScreenPoints ==
    DownPoints \cup MovePoints \cup WheelPoints
        \cup {<<state.viewportWidth, state.viewportHeight>>, <<37, 113>>}

\* C20: for any camera state (any pan, any zoom of the clamped range) and any
\* screen point p, mapping p to world space with screenToWorld and back with
\* the transform updateTransform applies (screen = world * zoom + pan) gives p.
C20_ScreenWorldRoundTrip ==
    \A p \in ScreenPoints :
        worldToScreen(state, screenToWorld(state, p[1], p[2]))
            = [x |-> RInt(p[1]), y |-> RInt(p[2])]
C20_Witness ==
    /\ state.zoom \notin {RInt(1), RInt(5)}
    /\ state.panX # RInt(0) /\ state.panY # RInt(0)
    /\ \E p \in ScreenPoints :
           screenToWorld(state, p[1], p[2]).x.d # 1
    /\ \E e \in Entries("wheel") : e.before.zoom = Rat(1, 10)

\* the squared distance of the cell centre of the item with this id from the
\* centre of the buffered bounds of camera st
CentreDistance2(st, items, id) ==
    LET b == GrownViewport(st, BUFFER_SIZE)
        item == items[CHOOSE k \in 1..Len(items) : items[k].id = id]
        dx == RSub(Rat(2 * item.x + ITEM_SIZE, 2), RDiv(RAdd(b.left, b.right), RInt(2)))
        dy == RSub(Rat(2 * item.y + ITEM_SIZE, 2), RDiv(RAdd(b.top, b.bottom), RInt(2)))
    IN  RAdd(RMul(dx, dx), RMul(dy, dy))

\* the eviction step, run on this registry with this visible set, evicts
\* min(k, number of candidates) of the live non-visible items, none of them
\* nearer than one it keeps
EvictsFarthest(st, items, rendered, visibleItemIds) ==
    LET k == Len(rendered) - MAX_DOM_NODES
        candidates == {key \in mapKeys(rendered) :
                          key \notin visibleItemIds /\ key \in Ids(items)}
        evicted == evictedKeys(st, items, rendered, visibleItemIds)
    IN  IF k > 0
        THEN /\ evicted \subseteq candidates
             /\ Cardinality(evicted)
                    = IF k < Cardinality(candidates) THEN k ELSE Cardinality(candidates)
             /\ \A e \in evicted, c \in candidates \ evicted :
                    RLe(CentreDistance2(st, items, c), CentreDistance2(st, items, e))
        ELSE evicted = {}

\* the documented example: MAX_DOM_NODES + 2 live elements, three of them not
\* visible, at distances 50, 10 and 30 from the centre (400, 300) of the
\* bounds of the 800x600 viewport
ExampleItems ==
    [i \in 1..(MAX_DOM_NODES + 2) |->
        [id |-> i, type |-> "photo", src |-> "picsum",
         x |-> IF i = 1 THEN 350 ELSE IF i = 2 THEN 310 ELSE IF i = 3 THEN 330 ELSE 300,
         y |-> 200, column |-> 1, row |-> 1]]
ExampleRegistry ==
    [i \in 1..(MAX_DOM_NODES + 2) |-> createItemElement(ExampleItems[i])]

\* C21: when the eviction step runs with k = live count - MAX_DOM_NODES > 0
\* it evicts exactly min(k, number of live non-visible items) elements, the
\* live non-visible items farthest (cell centre to centre of the buffered
\* bounds) first; candidates at distances 50, 10, 30 with k = 2 lose those at
\* 50 and 30.  Checked for the step as syncDOM runs it (after the removal of
\* the items no longer visible), for the step run on the registry as it
\* stands, and for the example.
C21_EvictsFarthestNonVisible ==
    /\ EvictsFarthest(state, ITEM_DATA,
                      mapDeleteAll(renderedItems,
                                   itemsToRemove(renderedItems,
                                                 Ids(findVisibleItems(state, ITEM_DATA)))),
                      Ids(findVisibleItems(state, ITEM_DATA)))
    /\ EvictsFarthest(state, ITEM_DATA, renderedItems,
                      Ids(findVisibleItems(state, ITEM_DATA)))
    /\ evictedKeys(ExampleCamera, ExampleItems, ExampleRegistry,
                   4..(MAX_DOM_NODES + 2)) = {1, 3}
C21_Witness ==
    /\ Len(renderedItems) > MAX_DOM_NODES + 1
    /\ Cardinality(mapKeys(renderedItems) \ Ids(findVisibleItems(state, ITEM_DATA)))
           > Len(renderedItems) - MAX_DOM_NODES
    /\ \E c \in mapKeys(renderedItems) \ Ids(findVisibleItems(state, ITEM_DATA)) :
           c \notin evictedKeys(state, ITEM_DATA, renderedItems,
                                Ids(findVisibleItems(state, ITEM_DATA)))

\* the boundary checks of the last turn that ran outside a reconciliation
\* pass (a pass syncs first, then checks)
ChecksOutsidePass ==
    {i \in DOMAIN log :
        /\ log[i].op = "check"
        /\ \A j \in 1..(i - 1) : log[j].op # "sync"}

\* C22: every continue-drag event of an active drag runs a boundary check
\* synchronously, in its own turn, and continue-drag is the only input event
\* that runs a boundary check outside a scheduled reconciliation pass.
C22_OnlyDragChecksSynchronously ==
    /\ Entries("move") # {} => ChecksOutsidePass # {}
    /\ ChecksOutsidePass # {} => Entries("move") # {}

\* the elements the passes of the last turn took out of the registry
RemovedInTurn ==
    UNION {{e.removed[i] : i \in 1..Len(e.removed)} : e \in Entries("sync")}

\* C23: every removal of an id from the live registry (of an item no longer
\* visible, or by eviction) happens in a pass that first pauses the
\* element's video and detaches its source: an id that leaves the registry
\* in a step is among the elements the step's passes cleaned up, and no
\* element was taken out with its video still playing or attached.
C23_RemovalCleansVideoFirst ==
    /\ [](\A el \in RemovedInTurn : el.video => el.paused /\ ~el.hasSrc)
    /\ [][\A key \in mapKeys(renderedItems) \ mapKeys(renderedItems') :
             \E el \in RemovedInTurn' : el.key = key]_vars
C23_Witness ==
    \E el \in RemovedInTurn : el.video /\ el.wasPlaying /\ el.paused /\ ~el.hasSrc

\* the live elements showing a placeholder after a load error, by key
Placeholders(rendered) ==
    {rendered[i].key : i \in {j \in 1..Len(rendered) : rendered[j].placeholder}}

\* C24: a media load error on a live element (photo or video) puts a
\* placeholder in it and leaves the registry's membership, the camera state
\* and the store as they were; later passes complete (the registry is the
\* visible set again), ask no failed video to play, and do not load the
\* failed media again while its element stays live (it keeps its
\* placeholder).
C24_LoadErrorIsContained ==
    /\ [](\A e \in Entries("error") :
            /\ mapKeys(renderedItems) = e.before.keys
            /\ state = e.before.state
            /\ ITEM_DATA = e.before.ITEM_DATA
            /\ e.key \in Placeholders(renderedItems))
    /\ [](\A e \in Entries("sync") :
            /\ Placeholders(e.rendered) \cap e.played = {}
            /\ Placeholders(e.rendered) # {} => mapKeys(e.rendered) = VisibleIds(e))
    /\ [][\A key \in Placeholders(renderedItems) :
             (key \in mapKeys(renderedItems')
                 /\ \A el \in RemovedInTurn' : el.key # key)
             => key \in Placeholders(renderedItems')]_vars
C24_Witness ==
    \E e \in Entries("sync") :
        /\ Placeholders(e.rendered) \cap RealVideoIds # {}
        /\ Placeholders(e.rendered) \cap BrokenPhotoIds # {}
        /\ \E k \in 1..Len(e.items) :
              /\ e.items[k].id \in Placeholders(e.rendered) \cap RealVideoIds
              /\ SquareMeets(e.items[k].x, e.items[k].y, GrownViewport(e.state, 0))
        /\ nEvents >= 3

\* the number of grid-item elements attached to the canvas for this id
AttachedCount(children, id) == Cardinality({i \in 1..Len(children) : children[i] = id})

\* C25: at the end of every event or frame turn an id is a key of the live
\* registry exactly when one grid-item element for that id, and no more, is
\* attached to the canvas; across a turn the ids newly attached are the ids
\* newly in the registry and the ids detached are the ids that left it.
C25_RegistryMirrorsCanvas ==
    /\ [](\A id \in mapKeys(renderedItems) \cup SeqToSet(canvasChildren) :
            /\ id \in mapKeys(renderedItems)
            /\ AttachedCount(canvasChildren, id) = 1)
    /\ [][/\ SeqToSet(canvasChildren') \ SeqToSet(canvasChildren)
                = mapKeys(renderedItems') \ mapKeys(renderedItems)
           /\ SeqToSet(canvasChildren) \ SeqToSet(canvasChildren')
                = mapKeys(renderedItems) \ mapKeys(renderedItems')]_vars
C25_Witness ==
    /\ nAppends > 0
    /\ \E el \in RemovedInTurn : el.key \notin SeqToSet(canvasChildren)
    /\ \E e \in Entries("sync") :
           \E item \in SeqToSet(e.newlyAttached) :
               /\ item \in SeqToSet(canvasChildren)
               /\ item > INITIAL_ITEMS
    /\ Len(canvasChildren) < Len(ITEM_DATA)

\* C26: the in-flight guard isLoadingMore is false at the end of every event
\* or frame turn: a boundary check that sets it clears it before it returns,
\* also when the append function is not available or the append adds nothing.
C26_GuardClearedEachTurn == ~isLoadingMore

\* C27: at the end of every event or frame turn renderAnimationFrame is
\* non-null exactly when a frame callback is outstanding, and at most one frame
\* callback is outstanding (also after the direct render pass of loadFromCenter
\* and after a scheduleRender issued inside a render pass).
C27_HandleMatchesOutstandingFrame ==
    /\ (renderAnimationFrame # "null") <=> (rafQueue > 0)
    /\ rafQueue <= 1

\* C28: if input events stop (from some turn on only display frames happen),
\* the system reaches and stays in a state with no frame callback outstanding;
\* the store then no longer grows, since only a turn can append to it.
C28_QuiescesWhenInputStops ==
    (<>[][Frame]_vars) => <>[](rafQueue = 0)

\* checkBoundariesAndLoad: the distance it computes to the boundary in a
\* direction, for camera st over the store items
boundaryDistance(direction, st, items) ==
    LET bounds == calculateViewportBounds(st)
        canvasDims == calculateCanvasDimensions(items)
    IN  CASE direction = "right" -> RSub(RInt(canvasDims.width), bounds.right)
          [] direction = "left" -> RSub(bounds.left, RInt(0))
          [] direction = "bottom" -> RSub(RInt(canvasDims.height), bounds.bottom)
          [] direction = "top" -> RSub(bounds.top, RInt(0))

\* the store's extent is larger in a direction after an append than before
GrewToward(direction, before, after) ==
    CASE direction = "right" -> MaxColumn(after) > MaxColumn(before)
      [] direction = "bottom" -> MaxRow(after) > MaxRow(before)
      [] direction = "left" -> MinColumn(after) < MinColumn(before)
      [] direction = "top" -> MinRow(after) < MinRow(before)

\* C29: after an append that a boundary check made for direction d the store's
\* extent has grown in direction d, and the distance to that boundary, computed
\* again for the camera of the check, is larger than the one that triggered it.
C29_AppendPushesBoundaryAway ==
    \A c \in Entries("check") : \A a \in Entries("append") :
        (c.called = a.dir /\ c.items = a.before) =>
            LET after == storeAfterAdd(a.before, a.newItems, a.dir)
            IN  /\ GrewToward(a.dir, a.before, after)
                /\ RLt(boundaryDistance(a.dir, c.state, a.before),
                       boundaryDistance(a.dir, c.state, after))

\* C30: a boundary check calls the append for a direction only if the
\* buffered-bounds edge is within LOAD_THRESHOLD of the store's extent edge in
\* that direction, the extent being that of the items the check found.
C30_LoadsOnlyNearExtentEdge ==
    \A e \in Entries("check") :
        e.called # "none" => NearEdge(e.called, e.state, e.items)

\* C31: after any sequence of appends, in any order of directions, no two
\* items of the store occupy the same grid cell (column, row).
C31_CellsAreDistinct ==
    \A i, j \in 1..Len(ITEM_DATA) :
        (ITEM_DATA[i].column = ITEM_DATA[j].column
            /\ ITEM_DATA[i].row = ITEM_DATA[j].row) => i = j
C31_Witness ==
    /\ nAppends >= 3
    /\ \E k \in 1..Len(ITEM_DATA) : ITEM_DATA[k].column < 0 /\ ITEM_DATA[k].row >= 0
    /\ \E k \in 1..Len(ITEM_DATA) : ITEM_DATA[k].row < 0
    /\ \E k \in 1..Len(ITEM_DATA) :
           ITEM_DATA[k].column >= 0 /\ ITEM_DATA[k].row * GRID_COLUMNS >= INITIAL_ITEMS

\* the element el is as createItemElement builds it from item (its place and
\* its playback state apart, which later passes update)
BuiltFrom(el, item) ==
    LET fresh == createItemElement(item)
    IN  /\ el.key = fresh.key
        /\ el.video = fresh.video
        /\ el.hasSrc = fresh.hasSrc
        /\ el.placeholder = fresh.placeholder

\* C32: once the store has been replaced by loaded real data and
\* reinitializeWithNewData has run, every live element of the registry was
\* built from the item that now holds its id in the store: no element built
\* from a replaced synthetic item survives under an id the new data reuses.
C32_ElementsBuiltFromCurrentItems ==
    usingRealData =>
        \A i \in 1..Len(renderedItems) :
            \E k \in 1..Len(ITEM_DATA) :
                /\ ITEM_DATA[k].id = renderedItems[i].key
                /\ BuiltFrom(renderedItems[i], ITEM_DATA[k])

\* C33: while loaded real data is in use, addMoreItems with any count and any
\* direction leaves the store as it is (no item added, removed or moved) and
\* consumes no id of the global sequence; so do the appends that the boundary
\* checks of a turn call.
C33_RealDataStoreIsFrozen ==
    usingRealData =>
        /\ \A count \in AppendCounts, direction \in Directions :
               \E m \in {addMoreItems(Cur, count, direction)} :
                   /\ m.ITEM_DATA = ITEM_DATA
                   /\ m.globalItemIdCounter = globalItemIdCounter
        /\ \A e \in Entries("check") :
               (e.called # "none" /\ e.items = loadItemData(Len(e.items))) =>
                   /\ ITEM_DATA = e.items
                   /\ globalItemIdCounter = e.counter
C33_Witness ==
    /\ usingRealData
    /\ globalItemIdCounter > INITIAL_ITEMS
    /\ \E e \in Entries("check") : e.called # "none" /\ e.items = ITEM_DATA

====
